---- MODULE Spec2Model ----
(***************************************************************************)
(* Generation job orchestration of MatrixGen Pro: the job queue and its    *)
(* dispatch tick (App.processNextJob / App.processJob), the plugin         *)
(* registry (PluginRegistry) and the session drivers (the generate         *)
(* functions of aiPluginToApiPlugin, GeeknowPlugin, GrsaiPlugin,           *)
(* UniversalMockPlugin and MyCustomPlugin).                                *)
(*                                                                         *)
(* React state is modelled as the code uses it: `jobs` is the state cell   *)
(* that the functional updaters of setJobs act on; `closureJobs` is the    *)
(* value of `jobs` captured by the processNextJob closure that the         *)
(* currently installed interval calls (useCallback deps [jobs]); Render    *)
(* is React's re-render followed by the effect that re-installs the        *)
(* interval with the fresh closure.                                        *)
(***************************************************************************)
EXTENDS Integers, Sequences, FiniteSets, TLC

\* ------------------------------------------------------------------ bounds
MaxJobs == 2            \* jobs ever created in a run of SpecQueue
MaxDriverJobs == 1      \* jobs ever created in a run of Spec
ConcurrencyLimit == 1   \* settings.concurrency of the run (1..20 in the UI)
MaxRetriesBound == 2    \* stands for maxRetries / MAX_ATTEMPTS / maxAttempts
MockStepsBound == 2     \* stands for `steps` of UniversalMockPlugin.generate
MaxStale == 1           \* dispatches of a job that already has a driver
MaxRestored == 1        \* PROCESSING records read back from MATRIX_JOBS
MaxBatch == 2           \* settings.batchSize (1..10 in the UI)
MaxReloads == 1         \* calls of clearAndReloadPlugins
MaxScripts == 2         \* scripts in the plugin folder
MaxRegistryReloads == 2 \* calls of clearAndReloadPlugins in SpecRegistry
MaxItems == 3           \* role-creation items whose conversion is started

\* --------------------------------------------------------------- constants
Undefined == "undefined"   \* an absent optional field (resultUrl, error, ...)
NoNumber == -1             \* an absent numeric field of a response

PENDING == "PENDING"
PROCESSING == "PROCESSING"
COMPLETED == "COMPLETED"
FAILED == "FAILED"

MediaTypes == {"image", "video"}

VARIABLES jobs, closureJobs, drivers, nextId, settings, externalPlugins, reloadPc,
          reloads, pluginDir, characterCall, ffmpeg, conversions, parsed

vars == <<jobs, closureJobs, drivers, nextId, settings, externalPlugins, reloadPc, reloads,
          pluginDir, characterCall, ffmpeg, conversions, parsed>>

\* the state of the role panel and of the services it calls
panelVars == <<characterCall, ffmpeg, conversions>>

\* ---------------------------------------------------------------- registry
\* own keys of the built-in table `plugins`
BuiltInIds == {"universal-mock", "my-custom-plugin", "sora-veo-cloud", "grsai-provider"}

\* members every JavaScript object literal inherits from Object.prototype
ObjectPrototypeKeys == {"constructor", "toString"}

\* manifest ids of the plugin scripts the loader can return
ExternalIds == {"geeknow-provider"}

\* provider ids a caller may pass to PluginRegistry.get
ProviderIds == BuiltInIds \cup ExternalIds \cup ObjectPrototypeKeys \cup {"never-registered"}

UniversalMockPlugin == [id |-> "universal-mock", kind |-> "mock"]
MyCustomPlugin == [id |-> "my-custom-plugin", kind |-> "custom"]
GeeknowPlugin == [id |-> "sora-veo-cloud", kind |-> "geeknow"]
GrsaiPlugin == [id |-> "grsai-provider", kind |-> "grsai"]

\* aiPluginToApiPlugin(aiPlugin): the ApiPlugin wrapping an external script
aiPluginToApiPlugin(manifestId) == [id |-> manifestId, kind |-> "adapter"]

\* plugins[id]: property lookup on the object literal; a key the literal
\* does not own resolves along the prototype chain, anything else is
\* undefined (kind "undefined").
plugins(id) ==
  CASE id = "universal-mock" -> UniversalMockPlugin
    [] id = "my-custom-plugin" -> MyCustomPlugin
    [] id = "sora-veo-cloud" -> GeeknowPlugin
    [] id = "grsai-provider" -> GrsaiPlugin
    [] id \in ObjectPrototypeKeys -> [id |-> Undefined, kind |-> "inherited"]
    [] OTHER -> [id |-> Undefined, kind |-> Undefined]

\* externalPlugins.find(p => p.id === id)
FindExternal(ext, id) ==
  LET hits == SelectSeq(ext, LAMBDA p: p.id = id)
  IN IF hits = <<>> THEN [id |-> Undefined, kind |-> Undefined] ELSE hits[1]

Truthy(p) == p.kind # Undefined

\* PluginRegistry.get(id) on the external list ext
RegistryGet(ext, id) ==
  IF Truthy(FindExternal(ext, id)) THEN FindExternal(ext, id)
  ELSE IF Truthy(plugins(id)) THEN plugins(id)
  ELSE UniversalMockPlugin

PluginRegistryGet(id) == RegistryGet(externalPlugins, id)

\* an ApiPlugin: it has generate and getSupportedModels
IsUsableAdapter(p) == p.kind \in {"mock", "custom", "geeknow", "grsai", "adapter"}

\* -------------------------------------------------------------------- jobs
\* the Job literal of handleSingleGenerate and handleStartBatch
NewJob(id) ==
  [id |-> id, status |-> PENDING, progress |-> 0,
   resultUrl |-> Undefined, error |-> Undefined, mediaType |-> settings.mediaType]

MapJobs(js, id, f(_)) == [i \in 1..Len(js) |-> IF js[i].id = id THEN f(js[i]) ELSE js[i]]

\* prev.map(j => j.id === id ? {...j, status: PROCESSING, progress: 0} : j)
ClaimJob(js, id) ==
  MapJobs(js, id, LAMBDA j: [j EXCEPT !.status = PROCESSING, !.progress = 0])

\* the progress of every job is written, whatever its id
SetProgressNoIdTest(js, id, percent) ==
  [i \in 1..Len(js) |-> [js[i] EXCEPT !.progress = percent]]

\* prev.map(j => j.id === job.id ? {...j, progress: percent} : j)
SetProgress(js, id, percent) ==
  MapJobs(js, id, LAMBDA j: [j EXCEPT !.progress = percent])

\* {...j, status: COMPLETED, resultUrl, fileName, progress: 100}
CompleteJob(js, id, url) ==
  MapJobs(js, id, LAMBDA j: [j EXCEPT !.status = COMPLETED, !.resultUrl = url, !.progress = 100])

\* every job of the collection fails, whatever its id
FailJobNoIdTest(js, id, msg) ==
  [i \in 1..Len(js) |-> [js[i] EXCEPT !.status = FAILED, !.error = msg, !.progress = 0]]

\* {...j, status: FAILED, error: errorMessage, progress: 0}
FailJob(js, id, msg) ==
  MapJobs(js, id, LAMBDA j: [j EXCEPT !.status = FAILED, !.error = msg, !.progress = 0])

PendingJobs(js) == SelectSeq(js, LAMBDA j: j.status = PENDING)
ProcessingCount(js) == Len(SelectSeq(js, LAMBDA j: j.status = PROCESSING))
ActiveJobs(js) == SelectSeq(js, LAMBDA j: j.status = PENDING \/ j.status = PROCESSING)

\* the headroom test with > in place of >=
HasHeadroomOffByOne(js) == ~(ProcessingCount(js) > ConcurrencyLimit)

\* processingCount >= settings.concurrency makes the tick return
HasHeadroom(js) == ~(ProcessingCount(js) >= ConcurrencyLimit)

JobIds == 1..(MaxJobs + 1)
JobById(id) == LET hits == SelectSeq(jobs, LAMBDA j: j.id = id) IN hits[1]
HasJob(id) == \E i \in 1..Len(jobs): jobs[i].id = id


\* ------------------------------------------------- provider script parsers
\* toLowerCase on the status spellings the responses below carry
ToLowerCase(s) ==
  CASE s = "Completed" -> "completed"
    [] OTHER -> s

\* submit responses of the GeekNow API as the script sees them:
\* data0url: response.data is an array whose first entry has a url
SubmitResponses ==
  [data0url : BOOLEAN, id : {Undefined, "task-1"}, status : {Undefined, "queued", "completed"}]

\* status responses (GET /v1/videos/{id})
StatusResponses ==
  {r \in [code : {Undefined, "task_not_exist"},
          status : {Undefined, "processing", "completed", "Completed", "success",
                    "failed", "error", "cancelled"},
          video_url : {Undefined, "X"},
          progress : {NoNumber, 50}] :
     r.code # Undefined =>
       (r.status = Undefined /\ r.video_url = Undefined /\ r.progress = NoNumber)}

\* geeknow-provider plugin.parseTaskResponse
parseTaskResponse(response) ==
  IF response.data0url
  THEN [taskId |-> "image-completed", status |-> "completed"]
  ELSE IF response.id # Undefined
  THEN [taskId |-> response.id,
        status |-> IF response.status # Undefined THEN response.status ELSE "processing"]
  ELSE [taskId |-> Undefined, status |-> "failed"]

\* geeknow-provider plugin.parseVideoUrl
parseVideoUrl(response) ==
  LET status == IF response.status = Undefined THEN Undefined
                ELSE ToLowerCase(response.status)
  IN IF response.code = "task_not_exist"
     THEN [url |-> Undefined, status |-> "failed", progress |-> 0]
     ELSE IF status = "completed" /\ response.video_url # Undefined
     THEN [url |-> response.video_url, status |-> "completed", progress |-> 100]
     ELSE IF status = "failed"
     THEN [url |-> Undefined, status |-> "failed", progress |-> 0]
     ELSE [url |-> Undefined,
           status |-> IF status = Undefined THEN "processing" ELSE status,
           progress |-> IF response.progress = NoNumber THEN 0 ELSE response.progress]

\* zhichuang-provider: a response by what the script reads of it; status is
\* response.status || response.data?.status, url the first of the url fields
\* that is set, progress response.progress ?? response.data?.progress
ZhichuangStatusResponses ==
  [status : {Undefined, "processing", "queued", "completed", "failed", "cancelled", "error"},
   url : {Undefined, "X"},
   progress : {NoNumber, 50}]

\* zhichuang-provider plugin.parseTaskResponse
zhichuangParseTaskResponse(response) ==
  IF response.data0url
  THEN [taskId |-> "image-completed", status |-> "completed"]
  ELSE LET status == IF response.status # Undefined THEN ToLowerCase(response.status)
                     ELSE "processing"
       IN [taskId |-> response.id,
           status |-> IF response.id # Undefined THEN status ELSE "failed"]

\* zhichuang-provider plugin.parseVideoUrl
zhichuangParseVideoUrl(response) ==
  LET status == IF response.status = Undefined THEN "" ELSE ToLowerCase(response.status)
      progress == IF response.progress = NoNumber THEN 0 ELSE response.progress
  IN IF status = "completed" /\ response.url # Undefined
     THEN [url |-> response.url, status |-> "completed", progress |-> 100]
     ELSE IF status = "failed" \/ status = "cancelled"
     THEN [url |-> Undefined, status |-> "failed", progress |-> progress]
     ELSE [url |-> Undefined, status |-> IF status = "" THEN "processing" ELSE status,
           progress |-> progress]

\* grsai-provider.js: submit responses (code NoNumber: no code field;
\* dataId: response.data?.id)
GrsaiScriptSubmitResponses == [code : {NoNumber, 0, 500}, dataId : {Undefined, "task-1"}]

\* grsai-provider.js: responses of POST /v1/draw/result (status:
\* response.data?.status, url: the url the script extracts from data)
GrsaiScriptStatusResponses ==
  [code : {NoNumber, 0, -22, 500},
   status : {Undefined, "running", "succeeded", "failed"},
   url : {Undefined, "X"}]

\* grsai-provider.js plugin.parseTaskResponse; taskId "threw" is its
\* throw new Error
grsaiParseTaskResponse(response) ==
  IF response.code # 0 THEN [taskId |-> "threw", status |-> "threw"]
  ELSE IF response.dataId = Undefined THEN [taskId |-> Undefined, status |-> "failed"]
  ELSE [taskId |-> response.dataId, status |-> "processing"]

\* grsai-provider.js plugin.parseVideoUrl (it returns no progress)
grsaiParseVideoUrl(response) ==
  IF response.code = -22 THEN [url |-> Undefined, status |-> "processing", progress |-> NoNumber]
  ELSE IF response.code # 0 THEN [url |-> Undefined, status |-> "failed", progress |-> NoNumber]
  ELSE IF response.status = "succeeded"
  THEN IF response.url # Undefined
       THEN [url |-> response.url, status |-> "completed", progress |-> NoNumber]
       ELSE [url |-> Undefined, status |-> "failed", progress |-> NoNumber]
  ELSE IF response.status = "failed"
  THEN [url |-> Undefined, status |-> "failed", progress |-> NoNumber]
  ELSE [url |-> Undefined,
        status |-> IF response.status = Undefined THEN "processing" ELSE response.status,
        progress |-> NoNumber]

\* the plugin scripts of the repository
ScriptIds == {"geeknow-provider", "zhichuang-provider", "grsai-provider"}

SubmitResponsesOf(script) ==
  IF script = "grsai-provider" THEN GrsaiScriptSubmitResponses ELSE SubmitResponses

StatusResponsesOf(script) ==
  CASE script = "geeknow-provider" -> StatusResponses
    [] script = "zhichuang-provider" -> ZhichuangStatusResponses
    [] script = "grsai-provider" -> GrsaiScriptStatusResponses

ParseTaskResponseOf(script, response) ==
  CASE script = "geeknow-provider" -> parseTaskResponse(response)
    [] script = "zhichuang-provider" -> zhichuangParseTaskResponse(response)
    [] script = "grsai-provider" -> grsaiParseTaskResponse(response)

ParseVideoUrlOf(script, response) ==
  CASE script = "geeknow-provider" -> parseVideoUrl(response)
    [] script = "zhichuang-provider" -> zhichuangParseVideoUrl(response)
    [] script = "grsai-provider" -> grsaiParseVideoUrl(response)

\* the latest call of a parse function: the script, the function, the
\* response it was given and what came back
NoParse == [script |-> Undefined, fn |-> Undefined, response |-> <<>>, result |-> <<>>]

\* aiPlugin.parseTaskResponse(response) on a submit response
ParseSubmit ==
  /\ \E script \in ScriptIds: \E response \in SubmitResponsesOf(script):
       parsed' = [script |-> script, fn |-> "parseTaskResponse", response |-> response,
                  result |-> ParseTaskResponseOf(script, response)]
  /\ UNCHANGED <<jobs, closureJobs, drivers, nextId, settings, externalPlugins, reloadPc, reloads>>
  /\ UNCHANGED <<pluginDir, panelVars>>

\* aiPlugin.parseVideoUrl(statusResponse) on a status response
ParseStatus ==
  /\ \E script \in ScriptIds: \E response \in StatusResponsesOf(script):
       parsed' = [script |-> script, fn |-> "parseVideoUrl", response |-> response,
                  result |-> ParseVideoUrlOf(script, response)]
  /\ UNCHANGED <<jobs, closureJobs, drivers, nextId, settings, externalPlugins, reloadPc, reloads>>
  /\ UNCHANGED <<pluginDir, panelVars>>

\* ----------------------------------------------------------------- drivers
\* one record per call of processJob; pc is the await the call is parked at
\* ("submitImage": the image branch of GeeknowPlugin.generate); attempts and
\* taskId are the locals of generate that are live across its awaits;
\* lastPoll records what the latest status request of the call came back
\* with: "threw", or the family of the status it carried ("result": a
\* completion status and a url); media is the mediaType of its payload
NewDriver(id, plugin, media) ==
  [job |-> id, kind |-> plugin.kind,
   pc |-> IF plugin.kind = "geeknow" /\ media = "image" THEN "submitImage" ELSE "submit",
   attempts |-> 0, taskId |-> Undefined, lastPoll |-> Undefined, media |-> media]

DriverIds == 1..Len(drivers)

FailureStatuses == {"failed", "error", "cancelled"}
CompletionStatuses == {"completed", "succeeded", "success"}

PollFamily(status) ==
  IF status \in FailureStatuses THEN "failure"
  ELSE IF status \in CompletionStatuses THEN "completion"
  ELSE "waiting"

\* what a status response came back with: "result" when a completion
\* spelling arrived together with a url
PollResult(status, url) ==
  IF PollFamily(status) = "completion" /\ url # Undefined THEN "result" ELSE PollFamily(status)

\* the driver after a status request: parked at pc with the given locals
Polled(d, pc, attempts, family) ==
  [drivers EXCEPT ![d].pc = pc, ![d].attempts = attempts, ![d].lastPoll = family]

\* processJob: the promise of generate resolved with url
Returned(d, js, url) ==
  /\ jobs' = CompleteJob(js, drivers[d].job, url)
  /\ drivers' = [drivers EXCEPT ![d].pc = "done"]

\* processJob: generate threw, the catch branch records the message
Threw(d, js, msg) ==
  /\ jobs' = FailJob(js, drivers[d].job, msg)
  /\ drivers' = [drivers EXCEPT ![d].pc = "done"]

\* Math.round(Math.min(90, 10 + (attempts / maxRetries) * 80))
CalculatedProgress(attempts) ==
  LET num == 10 * MaxRetriesBound + 80 * attempts
      rounded == (2 * num + MaxRetriesBound) \div (2 * MaxRetriesBound)
  IN IF rounded > 90 THEN 90 ELSE rounded

\* the condition of the while loop of aiPluginToApiPlugin.generate
LoopContinues(status, attempts) ==
  status # "completed" /\ status # "success" /\ attempts < MaxRetriesBound

\* the code after the while loop of aiPluginToApiPlugin.generate
AfterLoopError(attempts) ==
  IF attempts >= MaxRetriesBound THEN "Video generation timeout"
  ELSE "Unexpected polling end"

\* aiPluginToApiPlugin.generate, from the submit response to the first sleep
AdapterSubmitReturn(d) ==
  /\ drivers[d].kind = "adapter" /\ drivers[d].pc = "submit"
  /\ UNCHANGED <<closureJobs, nextId, settings, externalPlugins, reloadPc, reloads>>
  /\ UNCHANGED <<pluginDir, panelVars, parsed>>
  /\ \/ Threw(d, jobs, "API Error")
     \/ \E response \in SubmitResponses:
          LET taskInfo == parseTaskResponse(response)
              js == SetProgress(jobs, drivers[d].job, 10)
          IN IF LoopContinues(taskInfo.status, 0)
             THEN /\ jobs' = js
                  /\ drivers' = [drivers EXCEPT ![d].pc = "poll",
                                                ![d].taskId = taskInfo.taskId]
             ELSE /\ jobs' = FailJob(js, drivers[d].job, AfterLoopError(0))
                  /\ drivers' = [drivers EXCEPT ![d].pc = "done",
                                                ![d].taskId = taskInfo.taskId]

\* one iteration of the while loop of aiPluginToApiPlugin.generate
AdapterPoll(d) ==
  /\ drivers[d].kind = "adapter" /\ drivers[d].pc = "poll"
  /\ UNCHANGED <<closureJobs, nextId, settings, externalPlugins, reloadPc, reloads>>
  /\ UNCHANGED <<pluginDir, panelVars, parsed>>
  /\ LET attempts == drivers[d].attempts + 1
         id == drivers[d].job
     IN \/ /\ jobs' = FailJob(jobs, id, "API Error")
           /\ drivers' = Polled(d, "done", attempts, "threw")
        \/ \E response \in StatusResponses:
             LET statusInfo == parseVideoUrl(response)
                 status == statusInfo.status
                 progress == IF statusInfo.progress # NoNumber THEN statusInfo.progress
                             ELSE CalculatedProgress(attempts)
                 js == SetProgress(jobs, id, progress)
             IN IF status = "completed" \/ status = "success"
                THEN /\ jobs' = CompleteJob(js, id,
                                   IF statusInfo.url = Undefined THEN "" ELSE statusInfo.url)
                     /\ drivers' = Polled(d, "done", attempts, PollResult(status, response.video_url))
                ELSE IF status = "failed" \/ status = "error"
                THEN /\ jobs' = FailJob(js, id, "Video generation failed")
                     /\ drivers' = Polled(d, "done", attempts, PollResult(status, response.video_url))
                ELSE IF LoopContinues(status, attempts)
                THEN /\ jobs' = js
                     /\ drivers' = Polled(d, "poll", attempts, PollResult(status, response.video_url))
                ELSE /\ jobs' = FailJob(js, id, AfterLoopError(attempts))
                     /\ drivers' = Polled(d, "done", attempts, PollResult(status, response.video_url))

\* --------------------------------------------------- GeeknowPlugin.generate
\* responses of GET /videos/{id} as GeeknowPlugin reads them
GeeknowStatusResponses ==
  [status : {Undefined, "processing", "Completed", "succeeded", "failed", "cancelled"},
   video_url : {Undefined, "X"},
   progress : {NoNumber, 50}]

\* Math.max(10, Math.min(99, Number(statusData.progress)))
ClampGeeknow(p) == IF p < 10 THEN 10 ELSE IF p > 99 THEN 99 ELSE p

\* GeeknowPlugin.generate, from the submit response on (image: to the end)
GeeknowSubmitReturn(d) ==
  /\ drivers[d].kind = "geeknow" /\ drivers[d].pc \in {"submit", "submitImage"}
  /\ UNCHANGED <<closureJobs, nextId, settings, externalPlugins, reloadPc, reloads>>
  /\ UNCHANGED <<pluginDir, panelVars, parsed>>
  /\ LET id == drivers[d].job
     IN \/ Threw(d, jobs, "API Error")
        \/ /\ drivers[d].pc = "submitImage"
           /\ \E url \in {Undefined, "X"}:
                Returned(d, SetProgress(jobs, id, 100), IF url = Undefined THEN "" ELSE url)
        \/ /\ drivers[d].pc = "submit"
           /\ \E taskId \in {Undefined, "task-1"}:
                IF taskId = Undefined
                THEN Threw(d, jobs, "API did not return a valid Task ID")
                ELSE /\ jobs' = jobs
                     /\ drivers' = [drivers EXCEPT ![d].pc = "poll", ![d].taskId = taskId]

\* one iteration of the polling loop of GeeknowPlugin.generate
GeeknowPoll(d) ==
  /\ drivers[d].kind = "geeknow" /\ drivers[d].pc = "poll"
  /\ UNCHANGED <<closureJobs, nextId, settings, externalPlugins, reloadPc, reloads>>
  /\ UNCHANGED <<pluginDir, panelVars, parsed>>
  /\ LET attempts == drivers[d].attempts + 1
         id == drivers[d].job
         \* the catch block, then the loop condition
         Swallowed(js, family) ==
           IF attempts >= MaxRetriesBound
           THEN /\ jobs' = FailJob(js, id, "Video generation timed out after 15 minutes")
                /\ drivers' = Polled(d, "done", attempts, family)
           ELSE /\ jobs' = js
                /\ drivers' = Polled(d, "poll", attempts, family)
     IN \/ Swallowed(jobs, "threw")
        \/ \E statusData \in GeeknowStatusResponses:
             LET status == IF statusData.status = Undefined THEN Undefined
                           ELSE ToLowerCase(statusData.status)
                 js == IF statusData.progress # NoNumber
                       THEN SetProgress(jobs, id, ClampGeeknow(statusData.progress))
                       ELSE jobs
             IN IF status \in {"completed", "succeeded", "success"}
                THEN IF statusData.video_url # Undefined
                     THEN /\ jobs' = CompleteJob(SetProgress(js, id, 100), id, statusData.video_url)
                          /\ drivers' = Polled(d, "done", attempts, PollResult(status, statusData.video_url))
                     ELSE Swallowed(SetProgress(js, id, 100), PollResult(status, statusData.video_url))
                ELSE IF status \in {"failed", "error", "cancelled"}
                THEN Swallowed(js, PollResult(status, statusData.video_url))
                ELSE IF attempts < MaxRetriesBound
                THEN /\ jobs' = js
                     /\ drivers' = Polled(d, "poll", attempts, PollResult(status, statusData.video_url))
                ELSE /\ jobs' = FailJob(js, id, "Video generation timed out after 15 minutes of polling")
                     /\ drivers' = Polled(d, "done", attempts, PollResult(status, statusData.video_url))

\* ----------------------------------------------------- GrsaiPlugin.generate
GrsaiSubmitResponses == [code : {0, 1}, id : {Undefined, "task-1"}]

GrsaiPollResponses ==
  {r \in [code : {0, -22, 1},
          status : {Undefined, "running", "succeeded", "failed"},
          url : {Undefined, "X"},
          progress : {NoNumber, 50, 150}] :
     r.code # 0 => (r.status = Undefined /\ r.url = Undefined /\ r.progress = NoNumber)}

\* GrsaiPlugin.generate after the submit response
GrsaiSubmitReturn(d) ==
  /\ drivers[d].kind = "grsai" /\ drivers[d].pc = "submit"
  /\ UNCHANGED <<closureJobs, nextId, settings, externalPlugins, reloadPc, reloads>>
  /\ UNCHANGED <<pluginDir, panelVars, parsed>>
  /\ \/ Threw(d, jobs, "API Error")
     \/ \E submitData \in GrsaiSubmitResponses:
          IF submitData.code # 0 THEN Threw(d, jobs, "task submit failed")
          ELSE IF submitData.id = Undefined THEN Threw(d, jobs, "API returned no task id")
          ELSE /\ jobs' = jobs
               /\ drivers' = [drivers EXCEPT ![d].pc = "poll", ![d].taskId = submitData.id]

\* one iteration of the for loop of GrsaiPlugin.generate
GrsaiPoll(d) ==
  /\ drivers[d].kind = "grsai" /\ drivers[d].pc = "poll"
  /\ UNCHANGED <<closureJobs, nextId, settings, externalPlugins, reloadPc, reloads>>
  /\ UNCHANGED <<pluginDir, panelVars, parsed>>
  /\ LET attempts == drivers[d].attempts + 1
         id == drivers[d].job
         \* continue / swallowed error, then i++ and the loop condition
         NextIteration(js, family) ==
           IF attempts < MaxRetriesBound
           THEN /\ jobs' = js
                /\ drivers' = Polled(d, "poll", attempts, family)
           ELSE /\ jobs' = FailJob(js, id, "generation timed out")
                /\ drivers' = Polled(d, "done", attempts, family)
     IN \/ NextIteration(jobs, "threw")
        \/ \E pollData \in GrsaiPollResponses:
             IF pollData.code = -22 THEN NextIteration(jobs, "waiting")
             ELSE IF pollData.code # 0 THEN NextIteration(jobs, "threw")
             ELSE LET js == IF pollData.progress # NoNumber /\ pollData.progress # 0
                            THEN SetProgress(jobs, id, pollData.progress) ELSE jobs
                      family == IF pollData.status = Undefined THEN "waiting"
                                ELSE PollResult(pollData.status, pollData.url)
                  IN IF pollData.status = "succeeded"
                     THEN IF pollData.url # Undefined
                          THEN /\ jobs' = CompleteJob(js, id, pollData.url)
                               /\ drivers' = Polled(d, "done", attempts, family)
                          ELSE NextIteration(js, family)
                     ELSE IF pollData.status = "failed"
                     THEN /\ jobs' = FailJob(js, id, "generation failed")
                          /\ drivers' = Polled(d, "done", attempts, family)
                     ELSE NextIteration(js, family)

\* ------------------------------------- UniversalMockPlugin / MyCustomPlugin
\* Math.floor((i / steps) * 100)
MockProgress(i) == (i * 100) \div MockStepsBound

\* one iteration of the loop of UniversalMockPlugin.generate; the last one
\* falls through to the return
MockStep(d) ==
  /\ drivers[d].kind = "mock" /\ drivers[d].pc = "submit"
  /\ UNCHANGED <<closureJobs, nextId, settings, externalPlugins, reloadPc, reloads>>
  /\ UNCHANGED <<pluginDir, panelVars, parsed>>
  /\ LET i == drivers[d].attempts + 1
         js == SetProgress(jobs, drivers[d].job, MockProgress(i))
     IN IF i < MockStepsBound
        THEN /\ jobs' = js
             /\ drivers' = [drivers EXCEPT ![d].attempts = i]
        ELSE /\ jobs' = CompleteJob(js, drivers[d].job, "X")
             /\ drivers' = [drivers EXCEPT ![d].pc = "done", ![d].attempts = i]

\* MyCustomPlugin.generate after its one-second wait
CustomFinish(d) ==
  /\ drivers[d].kind = "custom" /\ drivers[d].pc = "submit"
  /\ UNCHANGED <<closureJobs, nextId, settings, externalPlugins, reloadPc, reloads>>
  /\ UNCHANGED <<pluginDir, panelVars, parsed>>
  /\ Returned(d, SetProgress(jobs, drivers[d].job, 100), "X")


\* --------------------------------------------------------------- scheduler
\* dispatches that hit a job which already has a driver
StaleCount == Len(drivers) - Cardinality({drivers[d].job : d \in DriverIds})

\* processJob(job) up to its first await: the adapter is resolved, generate
\* runs to its first suspension; js is the collection after the claim
StartJob(js, id) ==
  LET media == settings.mediaType
      modelKnown == settings.videoModel # "custom-video-model"
      plugin == PluginRegistryGet(settings.providerId)
      driver == NewDriver(id, plugin, media)
      done == [driver EXCEPT !.pc = "done"]
  IN CASE plugin.kind = "inherited" ->
            /\ jobs' = FailJob(js, id, "plugin.generate is not a function")
            /\ drivers' = Append(drivers, done)
       [] plugin.kind = "grsai" /\ media = "video" /\ ~modelKnown ->
            /\ jobs' = FailJob(js, id, "unknown video model")
            /\ drivers' = Append(drivers, done)
       [] plugin.kind = "geeknow" ->
            /\ jobs' = SetProgress(js, id, IF media = "image" THEN 10 ELSE 5)
            /\ drivers' = Append(drivers, driver)
       [] plugin.kind = "custom" ->
            /\ jobs' = SetProgress(js, id, 50)
            /\ drivers' = Append(drivers, driver)
       [] OTHER ->
            /\ jobs' = js
            /\ drivers' = Append(drivers, driver)

\* what processNextJob and the interval effect read of the jobs they
\* captured: the order, the ids and the statuses
Rendered(js) == [i \in 1..Len(js) |-> [id |-> js[i].id, status |-> js[i].status]]

\* the effect of lines 2051-2060 keeps an interval only while the rendered
\* jobs contain a PENDING or PROCESSING job
IntervalInstalled == ActiveJobs(closureJobs) # <<>>

\* processNextJob, called by the interval: it reads the jobs of its closure
\* (maxStale: the run's budget of dispatches of an already dispatched job)
Tick(maxStale) ==
  /\ IntervalInstalled
  /\ UNCHANGED <<closureJobs, nextId, settings, externalPlugins, reloadPc, reloads>>
  /\ UNCHANGED <<pluginDir, panelVars, parsed>>
  /\ LET pendingJobs == PendingJobs(closureJobs)
     IN IF pendingJobs = <<>> \/ ~HasHeadroom(closureJobs)
        THEN UNCHANGED <<jobs, drivers>>
        ELSE LET jobToProcess == pendingJobs[1]
             IN /\ (\E d \in DriverIds: drivers[d].job = jobToProcess.id) => StaleCount < maxStale
                /\ StartJob(ClaimJob(jobs, jobToProcess.id), jobToProcess.id)

\* React re-renders App with the current state; the effect re-installs the
\* interval with the processNextJob of that render
Render ==
  /\ closureJobs # Rendered(jobs)
  /\ closureJobs' = Rendered(jobs)
  /\ UNCHANGED <<jobs, drivers, nextId, settings, externalPlugins, reloadPc, reloads>>
  /\ UNCHANGED <<pluginDir, panelVars, parsed>>

\* handleSingleGenerate with a non-blank text (cap: the run's job budget)
handleSingleGenerate(cap) ==
  /\ nextId <= cap
  /\ jobs' = <<NewJob(nextId)>> \o jobs
  /\ nextId' = nextId + 1
  /\ UNCHANGED <<closureJobs, drivers, settings, externalPlugins, reloadPc, reloads>>
  /\ UNCHANGED <<pluginDir, panelVars, parsed>>

\* the id is computed once, outside the loops
BatchJobsSharedId(first, n) == [i \in 1..n |-> NewJob(first)]

\* the jobs pushed by the forEach / for of handleStartBatch
BatchJobs(first, n) == [i \in 1..n |-> NewJob(first + i - 1)]

\* handleStartBatch with validPrompts non-blank prompts and
\* settings.batchSize = batchSize
StartBatchWith(cap, validPrompts, batchSize) ==
  /\ nextId + validPrompts * batchSize <= cap + 1
  /\ IF validPrompts = 0
     THEN UNCHANGED <<jobs, nextId>>
     ELSE /\ jobs' = BatchJobs(nextId, validPrompts * batchSize) \o jobs
          /\ nextId' = nextId + validPrompts * batchSize
  /\ UNCHANGED <<closureJobs, drivers, settings, externalPlugins, reloadPc, reloads>>
  /\ UNCHANGED <<pluginDir, panelVars, parsed>>

handleStartBatch(cap) ==
  \E validPrompts \in 0..cap, batchSize \in 1..MaxBatch:
    StartBatchWith(cap, validPrompts, batchSize)

\* ------------------------------------------------------------------ loader
\* the members isValidAIPlugin requires of a plugin object
RequiredManifestFields == {"id", "name", "version", "description"}
RequiredMethods == {"createRequest", "parseTaskResponse", "createStatusRequest", "parseVideoUrl"}

\* a script of the plugin folder, by what evaluating it gives: it throws, or
\* it returns `plugin`; strings lists the manifest fields that are strings
PluginScript(manifestId) ==
  [throws |-> FALSE, isObject |-> TRUE, hasManifest |-> TRUE, id |-> manifestId,
   strings |-> RequiredManifestFields, methods |-> RequiredMethods]

ThrowingScript == [PluginScript("broken-script") EXCEPT !.throws = TRUE]
NullPluginScript == [PluginScript(Undefined) EXCEPT !.isObject = FALSE]
NoManifestScript == [PluginScript(Undefined) EXCEPT !.hasManifest = FALSE]
NoVersionScript ==
  [PluginScript("no-version") EXCEPT !.strings = RequiredManifestFields \ {"version"}]
NoParseVideoUrlScript ==
  [PluginScript("no-parse-video-url") EXCEPT !.methods = RequiredMethods \ {"parseVideoUrl"}]

PluginScripts ==
  {PluginScript("geeknow-provider"), PluginScript("my-custom-plugin"), ThrowingScript,
   NullPluginScript, NoManifestScript, NoVersionScript, NoParseVideoUrlScript}

\* what invoke('load_plugins_raw') gives: it rejects, or resolves with scripts
PluginDir(scripts) == [readable |-> TRUE, scripts |-> scripts]
UnreadableDir == [readable |-> FALSE, scripts |-> <<>>]

isValidAIPlugin(obj) ==
  /\ obj.isObject
  /\ obj.hasManifest
  /\ \A f \in RequiredManifestFields: f \in obj.strings
  /\ \A m \in RequiredMethods: m \in obj.methods

\* the for loop of loadExternalPlugins with its try/catch per script
RECURSIVE LoadScripts(_, _)
LoadScripts(scripts, loaded) ==
  IF scripts = <<>> THEN loaded
  ELSE LET script == Head(scripts)
       IN IF script.throws THEN LoadScripts(Tail(scripts), loaded)
          ELSE IF isValidAIPlugin(script)
               THEN LoadScripts(Tail(scripts), Append(loaded, script))
               ELSE LoadScripts(Tail(scripts), loaded)

\* the loop under the outer try/catch only: a script that throws ends the
\* load with []
loadExternalPluginsOuterCatchOnly(dir) ==
  IF ~dir.readable \/ \E i \in 1..Len(dir.scripts): dir.scripts[i].throws
  THEN <<>>
  ELSE LoadScripts(dir.scripts, <<>>)

\* loadExternalPlugins: the outer catch returns []
loadExternalPlugins(dir) ==
  IF ~dir.readable THEN <<>> ELSE LoadScripts(dir.scripts, <<>>)

\* aiPlugins.map(aiPluginToApiPlugin)
loadAndConvertExternalPlugins(dir) ==
  LET aiPlugins == loadExternalPlugins(dir)
  IN [i \in 1..Len(aiPlugins) |-> aiPluginToApiPlugin(aiPlugins[i].id)]

\* ------------------------------------------------------------------ reload
\* clearAndReloadPlugins up to its await
ReloadBegin(cap) ==
  /\ reloadPc = "idle"
  /\ reloads < cap
  /\ reloads' = reloads + 1
  /\ externalPlugins' = <<>>
  /\ reloadPc' = "loading"
  /\ UNCHANGED <<jobs, closureJobs, drivers, nextId, settings>>
  /\ UNCHANGED <<pluginDir, panelVars, parsed>>

\* the reload also hands the reloaded adapters to the calls of processJob
\* that are running
ReloadEndRebindsDrivers ==
  /\ reloadPc = "loading"
  /\ externalPlugins' = loadAndConvertExternalPlugins(pluginDir)
  /\ reloadPc' = "idle"
  /\ drivers' = [d \in DriverIds |->
                   [drivers[d] EXCEPT !.kind = RegistryGet(externalPlugins', settings.providerId).kind]]
  /\ UNCHANGED <<jobs, closureJobs, nextId, settings, reloads>>
  /\ UNCHANGED <<pluginDir, panelVars, parsed>>

\* clearAndReloadPlugins after loadAndConvertExternalPlugins resolved
ReloadEnd ==
  /\ reloadPc = "loading"
  /\ externalPlugins' = loadAndConvertExternalPlugins(pluginDir)
  /\ reloadPc' = "idle"
  /\ UNCHANGED <<jobs, closureJobs, drivers, nextId, settings, reloads>>
  /\ UNCHANGED <<pluginDir, panelVars, parsed>>

\* -------------------------------------------------------- character service
CharacterOps == {"createCharacter", "getCharacterList", "deleteCharacter"}

\* PROVIDER_CONFIGS[providerId]: property lookup on the object literal, so a
\* key of Object.prototype gives a truthy value without a baseUrl
PROVIDER_CONFIGS(providerId) ==
  CASE providerId \in {"geeknow-provider", "grsai-provider"} ->
         [kind |-> "config", baseUrl |-> "string"]
    [] providerId \in ObjectPrototypeKeys -> [kind |-> "inherited", baseUrl |-> Undefined]
    [] OTHER -> [kind |-> Undefined, baseUrl |-> Undefined]

\* plugin kinds whose object has createCharacter, getCharacterList and
\* deleteCharacter: no ApiPlugin has them, aiPluginToApiPlugin copies none
CharacterManagementKinds == {}

pluginSupportsCharacterManagement(plugin) == plugin.kind \in CharacterManagementKinds

\* getCharacterProvider with the fallback to the geeknow configuration that
\* its last comment says was removed
getCharacterProviderGeeknowFallback(ext, providerId) ==
  LET plugin == RegistryGet(ext, providerId)
      config == PROVIDER_CONFIGS(providerId)
  IN IF pluginSupportsCharacterManagement(plugin) THEN [type |-> "plugin", provider |-> plugin]
     ELSE IF Truthy(config) THEN [type |-> "config", provider |-> config]
     ELSE [type |-> "config", provider |-> PROVIDER_CONFIGS("geeknow-provider")]

\* getCharacterProvider(providerId) on the external list ext; type "throw"
\* is the Error of its last line
getCharacterProvider(ext, providerId) ==
  LET plugin == RegistryGet(ext, providerId)
      config == PROVIDER_CONFIGS(providerId)
  IN IF pluginSupportsCharacterManagement(plugin) THEN [type |-> "plugin", provider |-> plugin]
     ELSE IF Truthy(config) THEN [type |-> "config", provider |-> config]
     ELSE [type |-> "throw", provider |-> plugin]

NoCharacterCall ==
  [op |-> Undefined, providerId |-> Undefined, plugin |-> Undefined, outcome |-> Undefined,
   requested |-> FALSE]

\* outcomes of one call: how the returned promise settles and whether an
\* http request was made on the way
CharacterOutcomes(providerData) ==
  IF providerData.type = "throw"
  THEN {[outcome |-> "not-supported", requested |-> FALSE]}
  ELSE IF providerData.type = "config" /\ providerData.provider.baseUrl = Undefined
  THEN {[outcome |-> "type-error", requested |-> FALSE]}     \* undefined.replace
  ELSE {[outcome |-> o, requested |-> TRUE] : o \in {"resolved", "request-failed"}}

\* SoraCharacterService.createCharacter / getCharacterList / deleteCharacter
\* (..., providerId?)
CharacterCall ==
  /\ \E op \in CharacterOps, arg \in ProviderIds \cup {Undefined}:
       LET providerId == IF arg = Undefined THEN "geeknow-provider" ELSE arg
           providerData == getCharacterProvider(externalPlugins, providerId)
       IN \E r \in CharacterOutcomes(providerData):
            characterCall' = [op |-> op, providerId |-> providerId,
                              plugin |-> PluginRegistryGet(providerId).kind,
                              outcome |-> r.outcome, requested |-> r.requested]
  /\ UNCHANGED <<jobs, closureJobs, drivers, nextId, settings, externalPlugins, reloadPc, reloads>>
  /\ UNCHANGED <<pluginDir, ffmpeg, conversions, parsed>>

\* ----------------------------------------------------------- FFmpegService
\* a call of imageToVideo for a role-creation item, at its next await
NewConversion(item, pc) == [item |-> item, pc |-> pc]

ConversionIds == 1..Len(conversions)

\* positions between the entry into the try block and the return
ConvertingPcs == {"read", "exec", "output"}

\* everything the role panel leaves alone
encoderFrame ==
  <<jobs, closureJobs, drivers, nextId, settings, externalPlugins, reloadPc, reloads,
    pluginDir, characterCall, parsed>>

\* handleCreateRole(item) -> processVideoConversionAndUpload(item) ->
\* imageToVideo, up to its first await: the import when the core is loaded,
\* the 100 ms timer of load() when another load is running, toBlobURL when
\* this call starts the load
handleCreateRole(item) ==
  /\ Len(conversions) < MaxItems
  /\ \A c \in ConversionIds: conversions[c].item # item
  /\ IF ffmpeg.loaded
     THEN /\ conversions' = Append(conversions, NewConversion(item, "read"))
          /\ UNCHANGED ffmpeg
     ELSE IF ffmpeg.loading
     THEN /\ conversions' = Append(conversions, NewConversion(item, "waitLoad"))
          /\ UNCHANGED ffmpeg
     ELSE /\ conversions' = Append(conversions, NewConversion(item, "load"))
          /\ ffmpeg' = [ffmpeg EXCEPT !.loading = TRUE]
  /\ UNCHANGED encoderFrame

\* load(): this.ffmpeg.load settles; finally clears loading, a rejection
\* leaves imageToVideo before its try block
LoadSettles(c) ==
  /\ conversions[c].pc = "load"
  /\ \/ /\ ffmpeg' = [loaded |-> TRUE, loading |-> FALSE]
        /\ conversions' = [conversions EXCEPT ![c].pc = "read"]
     \/ /\ ffmpeg' = [ffmpeg EXCEPT !.loading = FALSE]
        /\ conversions' = [conversions EXCEPT ![c].pc = "failed"]
  /\ UNCHANGED encoderFrame

\* load(): the waiting loop sees loading false and returns, loaded or not
WaitLoadReturns(c) ==
  /\ conversions[c].pc = "waitLoad"
  /\ ~ffmpeg.loading
  /\ conversions' = [conversions EXCEPT ![c].pc = "read"]
  /\ UNCHANGED <<ffmpeg, encoderFrame>>

\* imageToVideo: read_file_base64 and writeFile(inputName); writeFile
\* rejects when the core is not loaded
ReadInput(c) ==
  /\ conversions[c].pc = "read"
  /\ \/ /\ ffmpeg.loaded
        /\ conversions' = [conversions EXCEPT ![c].pc = "exec"]
     \/ conversions' = [conversions EXCEPT ![c].pc = "failed"]
  /\ UNCHANGED <<ffmpeg, encoderFrame>>

\* imageToVideo: this.ffmpeg.exec(args) settles
ExecSettles(c) ==
  /\ conversions[c].pc = "exec"
  /\ \E pc \in {"output", "failed"}: conversions' = [conversions EXCEPT ![c].pc = pc]
  /\ UNCHANGED <<ffmpeg, encoderFrame>>

\* imageToVideo: readFile(outputName), the deleteFile calls, return
ReadOutput(c) ==
  /\ conversions[c].pc = "output"
  /\ \E pc \in {"done", "failed"}: conversions' = [conversions EXCEPT ![c].pc = pc]
  /\ UNCHANGED <<ffmpeg, encoderFrame>>

\* -------------------------------------------------------------------- spec
\* a PROCESSING record as the persistence effect wrote it to MATRIX_JOBS
RestoredJob(id) == [NewJob(id) EXCEPT !.status = PROCESSING]

Min(a, b) == IF a < b THEN a ELSE b

\* settings a run can start with (MATRIX_SETTINGS): the provider id and
\* media type in use, and a video model name GrsaiPlugin knows or not
PersistedSettings ==
  {st \in [providerId : ProviderIds \ {"universal-mock", "toString"}, mediaType : MediaTypes,
           videoModel : {"veo_3_1-fast", "custom-video-model"}] :
     /\ st.videoModel = "custom-video-model" =>
          (st.providerId = "grsai-provider" /\ st.mediaType = "video")
     /\ st.mediaType = "image" => st.providerId \in {"sora-veo-cloud", "grsai-provider"}}

\* the Image / Video buttons: setSettings({...settings, mediaType})
setMediaType(mediaType) ==
  /\ mediaType # settings.mediaType
  /\ [settings EXCEPT !.mediaType = mediaType] \in PersistedSettings
  /\ settings' = [settings EXCEPT !.mediaType = mediaType]
  /\ UNCHANGED <<jobs, closureJobs, drivers, nextId, externalPlugins, reloadPc, reloads>>
  /\ UNCHANGED <<pluginDir, panelVars, parsed>>

\* useState initialisers: jobs is parsed from MATRIX_JOBS (empty on a first
\* run), settings from MATRIX_SETTINGS; no processJob is running;
\* externalPlugins = []
InitWith(settingsSet, dirs) ==
  /\ settings \in settingsSet
  /\ pluginDir \in dirs
  /\ \E n \in 0..Min(MaxRestored, ConcurrencyLimit):
       /\ jobs = [i \in 1..n |-> RestoredJob(i)]
       /\ nextId = n + 1
  /\ closureJobs = Rendered(jobs)
  /\ drivers = <<>>
  /\ externalPlugins = <<>>
  /\ reloadPc = "idle"
  /\ reloads = 0
  /\ characterCall = NoCharacterCall
  /\ ffmpeg = [loaded |-> FALSE, loading |-> FALSE]
  /\ conversions = <<>>
  /\ parsed = NoParse

\* the plugin folder as shipped: empty, or holding the geeknow-provider script
ShippedDirs == {PluginDir(<<>>)} \cup {PluginDir(<<PluginScript(id)>>) : id \in ExternalIds}

Init == InitWith(PersistedSettings, ShippedDirs)

DriverStep(d) ==
  \/ AdapterSubmitReturn(d)
  \/ AdapterPoll(d)
  \/ GeeknowSubmitReturn(d)
  \/ GeeknowPoll(d)
  \/ GrsaiSubmitReturn(d)
  \/ GrsaiPoll(d)
  \/ MockStep(d)
  \/ CustomFinish(d)

\* every job is followed through one call of processJob here; a second
\* dispatch of the same job is a step of NextQueue
Next ==
  \/ Tick(0)
  \/ Render
  \/ handleSingleGenerate(MaxDriverJobs)
  \/ handleStartBatch(MaxDriverJobs)
  \/ ReloadBegin(MaxReloads)
  \/ ReloadEnd
  \/ \E d \in DriverIds: DriverStep(d)

\* every provider and the reload, few jobs
Spec == Init /\ [][Next]_vars

\* the queue with the providers the registry of part_017 has built in and
\* no external plugin loaded: more jobs, and interval ticks that run on a
\* closure React has not refreshed yet
QueueSettings ==
  {st \in PersistedSettings :
     st.providerId \in {"my-custom-plugin", "never-registered", "constructor"}}

InitQueue == InitWith(QueueSettings, {PluginDir(<<>>)})

QueueDriverStep(d) ==
  \/ MockStep(d)
  \/ CustomFinish(d)

NextQueue ==
  \/ Tick(MaxStale)
  \/ Render
  \/ handleSingleGenerate(MaxJobs)
  \/ handleStartBatch(MaxJobs)
  \/ \E d \in DriverIds: QueueDriverStep(d)

SpecQueue == InitQueue /\ [][NextQueue]_vars

\* the interval keeps firing, React renders, awaited timers resolve
FairSpecQueue ==
  /\ SpecQueue
  /\ WF_vars(Tick(MaxStale))
  /\ WF_vars(Render)
  /\ \A d \in 1..(MaxJobs + MaxStale): WF_vars(d \in DriverIds /\ QueueDriverStep(d))

\* the plugin folders a reload can find: unreadable, or any scripts
RECURSIVE ScriptLists(_)
ScriptLists(n) ==
  IF n = 0 THEN {<<>>}
  ELSE ScriptLists(n - 1) \cup
       {Append(l, sc) : l \in {x \in ScriptLists(n - 1) : Len(x) = n - 1}, sc \in PluginScripts}

RegistryDirs == {UnreadableDir} \cup {PluginDir(l) : l \in ScriptLists(MaxScripts)}

InitRegistry ==
  /\ InitWith({st \in PersistedSettings : st.providerId = "geeknow-provider"}, RegistryDirs)
  /\ jobs = <<>>

NextRegistry ==
  \/ ReloadBegin(MaxRegistryReloads)
  \/ ReloadEnd
  \/ CharacterCall

\* the registry, its reloads over any plugin folder, and the character
\* service that looks providers up in it
SpecRegistry == InitRegistry /\ [][NextRegistry]_vars

\* the queue with the built-in provider whose sessions can fail at the
\* submit, at a poll and by running out of polls
FailureSettings == {st \in PersistedSettings : st.providerId = "sora-veo-cloud"}

InitFailures == InitWith(FailureSettings, {PluginDir(<<>>)})

FailuresDriverStep(d) ==
  \/ GeeknowSubmitReturn(d)
  \/ GeeknowPoll(d)

NextFailures ==
  \/ Tick(0)
  \/ Render
  \/ handleSingleGenerate(MaxJobs)
  \/ \E d \in DriverIds: FailuresDriverStep(d)

SpecFailures == InitFailures /\ [][NextFailures]_vars

\* role-creation items of the panel
RoleItems == 1..MaxItems

InitEncoder ==
  /\ InitWith({st \in PersistedSettings : st.providerId = "geeknow-provider"}, {PluginDir(<<>>)})
  /\ jobs = <<>>

ConversionStep(c) ==
  \/ LoadSettles(c)
  \/ WaitLoadReturns(c)
  \/ ReadInput(c)
  \/ ExecSettles(c)
  \/ ReadOutput(c)

NextEncoder ==
  \/ \E item \in RoleItems: handleCreateRole(item)
  \/ \E c \in ConversionIds: ConversionStep(c)

\* the role panel starting conversions on the shared FFmpegService
SpecEncoder == InitEncoder /\ [][NextEncoder]_vars

InitParsers ==
  /\ InitWith({st \in PersistedSettings : st.providerId = "geeknow-provider"}, {PluginDir(<<>>)})
  /\ jobs = <<>>

NextParsers ==
  \/ ParseSubmit
  \/ ParseStatus

\* the parse functions of the plugin scripts on the responses a provider
\* can send
SpecParsers == InitParsers /\ [][NextParsers]_vars

\* the queue with the image sessions of the built-in cloud provider, and
\* interval ticks that run on a closure React has not refreshed yet
RedispatchSettings ==
  {st \in PersistedSettings : st.providerId = "sora-veo-cloud" /\ st.mediaType = "image"}

InitRedispatch == InitWith(RedispatchSettings, {PluginDir(<<>>)})

NextRedispatch ==
  \/ Tick(MaxStale)
  \/ Render
  \/ handleSingleGenerate(MaxJobs)
  \/ \E d \in DriverIds: GeeknowSubmitReturn(d)

SpecRedispatch == InitRedispatch /\ [][NextRedispatch]_vars

\* the queue of the built-in cloud provider while the user switches between
\* Image and Video
InitMedia ==
  InitWith({st \in PersistedSettings : st.providerId = "sora-veo-cloud"}, {PluginDir(<<>>)})

NextMedia ==
  \/ Tick(0)
  \/ Render
  \/ handleSingleGenerate(MaxDriverJobs)
  \/ \E mediaType \in MediaTypes: setMediaType(mediaType)
  \/ \E d \in DriverIds: FailuresDriverStep(d)

SpecMedia == InitMedia /\ [][NextMedia]_vars

TypeOK ==
  /\ Len(jobs) <= MaxJobs + MaxDriverJobs
  /\ \A i \in 1..Len(jobs): jobs[i].status \in {PENDING, PROCESSING, COMPLETED, FAILED}
  /\ Len(drivers) <= MaxJobs + MaxDriverJobs + MaxStale


\* ------------------------------------------------------------------ claims
DriversOf(id) == {d \in DriverIds : drivers[d].job = id}
PollingKinds == {"adapter", "geeknow", "grsai"}
IsSet(field) == field # Undefined /\ field # ""

\* the job of driver d satisfies P (jobs are looked up by id, as the
\* updaters of processJob do)
JobOfDriver(d, P(_)) == \A i \in 1..Len(jobs): jobs[i].id = drivers[d].job => P(jobs[i])

NoDoubleClaim == \A id \in JobIds: Cardinality(DriversOf(id)) <= 1

\* C3: a COMPLETED job has a non-empty resultUrl and no error; a FAILED job
\* has an error and no resultUrl.
ExclusiveTerminalFields ==
  \A i \in 1..Len(jobs):
    /\ jobs[i].status = COMPLETED =>
         IsSet(jobs[i].resultUrl) /\ jobs[i].error = Undefined
    /\ jobs[i].status = FAILED =>
         jobs[i].error # Undefined /\ jobs[i].resultUrl = Undefined

\* C4: PluginRegistry.get(id) is a usable adapter for every id, and the
\* universal mock adapter for every id that was never registered.
FallbackLookupNeverFails ==
  \A id \in ProviderIds:
    /\ IsUsableAdapter(PluginRegistryGet(id))
    /\ (id \notin BuiltInIds /\ FindExternal(externalPlugins, id).kind = Undefined)
         => PluginRegistryGet(id) = UniversalMockPlugin

\* C5: a session whose submit response already carried the result (the
\* parser answered taskId 'image-completed', status completed) ends without
\* a poll, its job COMPLETED with resultUrl set and progress 100.
SynchronousCompletion ==
  \A d \in DriverIds:
    drivers[d].taskId = "image-completed" =>
      /\ drivers[d].pc = "done"
      /\ drivers[d].attempts = 0
      /\ JobOfDriver(d, LAMBDA j: j.status = COMPLETED /\ j.progress = 100 /\ IsSet(j.resultUrl))

\* C6: a session whose submit produced no task id never enters the polling
\* loop and issues no status request.
MissingTaskIdNeverPolls ==
  \A d \in DriverIds:
    (drivers[d].kind \in PollingKinds /\ drivers[d].taskId = Undefined) =>
      drivers[d].pc # "poll" /\ drivers[d].attempts = 0

\* C7: after a status request that threw while attempts remain, the session
\* is still polling and its job is still PROCESSING.
TransientPollErrorSwallowed ==
  \A d \in DriverIds:
    (drivers[d].lastPoll = "threw" /\ drivers[d].attempts < MaxRetriesBound) =>
      /\ drivers[d].pc = "poll"
      /\ JobOfDriver(d, LAMBDA j: j.status = PROCESSING)

ProviderFailureErrors == {"Video generation failed", "generation failed"}

\* C8: after a status request that came back with a failure status (failed,
\* error, cancelled) the session has ended and its job is FAILED with the
\* provider failure as its error.
ProviderFailureIsTerminal ==
  \A d \in DriverIds:
    drivers[d].lastPoll = "failure" =>
      /\ drivers[d].pc = "done"
      /\ JobOfDriver(d, LAMBDA j: j.status = FAILED /\ j.error \in ProviderFailureErrors)

TimeoutErrors ==
  {"Video generation timeout", "generation timed out",
   "Video generation timed out after 15 minutes",
   "Video generation timed out after 15 minutes of polling"}

\* C9: a session never makes more status requests than its maximum, and a
\* session that ended on a poll that was not terminal (it reported waiting
\* or it threw) ended at the maximum, its job FAILED with a timeout error.
PollingTimesOut ==
  \A d \in DriverIds:
    drivers[d].kind \in PollingKinds =>
      /\ drivers[d].attempts <= MaxRetriesBound
      /\ (drivers[d].pc = "done" /\ drivers[d].lastPoll \in {"waiting", "threw"}) =>
           /\ drivers[d].attempts = MaxRetriesBound
           /\ JobOfDriver(d, LAMBDA j: j.status = FAILED /\ j.error \in TimeoutErrors)

IsPending(id) == \E i \in 1..Len(jobs): jobs[i].id = id /\ jobs[i].status = PENDING
IsTerminal(id) == \E i \in 1..Len(jobs): jobs[i].id = id /\ jobs[i].status \in {COMPLETED, FAILED}

\* C10: with the interval firing, React rendering and drivers resuming,
\* every job that is PENDING eventually is COMPLETED or FAILED.
EveryJobTerminates == \A id \in 1..MaxJobs: IsPending(id) ~> IsTerminal(id)


\* the record of job id after the step, when the step kept the job
SameJob(j, k) == k \in 1..Len(jobs') /\ jobs'[k].id = j.id

\* C11: once a job is COMPLETED or FAILED, no step changes its status,
\* progress, resultUrl or error.
TerminalStatesAreFinal ==
  [][\A i \in 1..Len(jobs):
       jobs[i].status \in {COMPLETED, FAILED} =>
         \A k \in 1..Len(jobs'): SameJob(jobs[i], k) => jobs'[k] = jobs[i]]_vars

\* C12: a step that makes a job FAILED sets its error and leaves its
\* progress at the value it had before the step.
FailureKeepsProgress ==
  [][\A i \in 1..Len(jobs):
       \A k \in 1..Len(jobs'):
         (SameJob(jobs[i], k) /\ jobs[i].status # FAILED /\ jobs'[k].status = FAILED) =>
           /\ jobs'[k].error # Undefined
           /\ jobs'[k].progress = jobs[i].progress]_vars

\* C13: whenever a step takes a job out of PENDING, no job created earlier
\* (a smaller creation number) is still PENDING.
CreationOrderDispatch ==
  [][\A i \in 1..Len(jobs):
       \A k \in 1..Len(jobs'):
         (SameJob(jobs[i], k) /\ jobs[i].status = PENDING /\ jobs'[k].status # PENDING) =>
           ~\E m \in 1..Len(jobs): jobs[m].status = PENDING /\ jobs[m].id < jobs[i].id]_vars

\* C14: a batch started with validPrompts non-empty prompts and batch size
\* batchSize adds exactly validPrompts * batchSize jobs, each PENDING with
\* progress 0 and an id no other job has, and leaves the existing jobs as
\* they were; with no non-empty prompt it adds nothing.
BatchExpansion ==
  [][\A validPrompts \in 0..MaxJobs, batchSize \in 1..MaxBatch:
       StartBatchWith(MaxJobs, validPrompts, batchSize) =>
         LET n == validPrompts * batchSize
         IN /\ Len(jobs') = Len(jobs) + n
            /\ \A i \in 1..n:
                 /\ jobs'[i].status = PENDING /\ jobs'[i].progress = 0
                 /\ \A k \in 1..Len(jobs'): jobs'[k].id = jobs'[i].id => k = i
            /\ \A i \in 1..Len(jobs): jobs'[n + i] = jobs[i]]_vars

\* C14 witness: two jobs of one batch, in the order the batch pushed them
\* (single generations would have put the later job first)
BatchExpansionWitness ==
  /\ Len(jobs) = 2
  /\ jobs[1].id + 1 = jobs[2].id
  /\ jobs[1].status = PENDING /\ jobs[2].status = PENDING

\* id is among the external adapters of the list ext
Present(ext, id) == Truthy(FindExternal(ext, id))

\* C15: when clearAndReloadPlugins starts while an external adapter for id is
\* registered, and the reload it starts will register one for id again, the
\* registry a concurrent caller sees during the reload still answers get(id)
\* with an external adapter.
AtomicReload ==
  [][\A id \in ProviderIds:
       (/\ reloadPc = "idle" /\ reloadPc' = "loading"
        /\ Present(externalPlugins, id)
        /\ Present(loadAndConvertExternalPlugins(pluginDir), id))
       => RegistryGet(externalPlugins', id).kind = "adapter"]_vars

\* C16: whatever external adapters have been loaded, get(builtInId) is the
\* built-in adapter.
BuiltInsNeverReplaced == \A id \in BuiltInIds: PluginRegistryGet(id) = plugins(id)

\* a script that evaluates to an object with the four manifest strings and
\* the four methods
WellFormedScript(sc) ==
  /\ ~sc.throws /\ sc.isObject /\ sc.hasManifest
  /\ sc.strings = RequiredManifestFields
  /\ sc.methods = RequiredMethods

\* C17: once a reload has finished, the external adapters are exactly the
\* well-formed scripts of the folder, in the folder's order, whatever other
\* scripts stand between them; a folder that cannot be read gives none.
LoaderIsolation ==
  (reloadPc = "idle" /\ reloads > 0) =>
    LET expected == IF pluginDir.readable
                    THEN SelectSeq(pluginDir.scripts, WellFormedScript) ELSE <<>>
    IN /\ Len(externalPlugins) = Len(expected)
       /\ \A i \in 1..Len(expected):
            externalPlugins[i] = aiPluginToApiPlugin(expected[i].id)

LoaderIsolationWitness ==
  /\ reloadPc = "idle" /\ reloads > 0
  /\ pluginDir = PluginDir(<<ThrowingScript, PluginScript("geeknow-provider")>>)
  /\ externalPlugins = <<aiPluginToApiPlugin("geeknow-provider")>>

EndsWithoutResult(id) ==
  /\ \E d \in 1..Len(drivers'):
       /\ drivers'[d].job = id /\ drivers'[d].pc = "done"
       /\ d \in DriverIds => drivers[d].pc # "done"
  /\ \E k \in 1..Len(jobs'): jobs'[k].id = id /\ jobs'[k].status # COMPLETED

\* C18: when a call of processJob ends without a result, its job is FAILED
\* with an error, every other job is as it was, and the job no longer counts
\* as PROCESSING, so the slot it held is free for the next tick.
FailuresContained ==
  [][\A i \in 1..Len(jobs): EndsWithoutResult(jobs[i].id) =>
       /\ Len(jobs') = Len(jobs)
       /\ jobs'[i].id = jobs[i].id
       /\ jobs'[i].status = FAILED /\ IsSet(jobs'[i].error)
       /\ \A k \in 1..Len(jobs): k # i => jobs'[k] = jobs[k]
       /\ ProcessingCount(jobs') =
            ProcessingCount(jobs) - (IF jobs[i].status = PROCESSING THEN 1 ELSE 0)]_vars

\* a job failed and the job created before it was claimed afterwards
FailuresContainedWitness ==
  \E i, k \in 1..Len(jobs), d, e \in DriverIds:
    /\ jobs[i].status = FAILED /\ IsSet(jobs[i].error)
    /\ drivers[d].job = jobs[i].id /\ drivers[d].pc = "done"
    /\ jobs[k].id # jobs[i].id /\ jobs[k].status \in {PROCESSING, COMPLETED}
    /\ drivers[e].job = jobs[k].id /\ e > d

\* C19: at most one call of imageToVideo is between its first file
\* operation and its return.
EncoderSerialized ==
  Cardinality({c \in ConversionIds : conversions[c].pc \in ConvertingPcs}) <= 1

ReducedStatuses == {"processing", "completed", "failed"}

\* C21: whatever status response a script's parseVideoUrl was given, the
\* status it returned is processing, completed or failed.
TotalStatusReduction ==
  parsed.fn = "parseVideoUrl" => parsed.result.status \in ReducedStatuses

\* the response of a script's endpoint with every field the script reads
\* missing
EmptyResponse(script, fn) ==
  CASE fn = "parseTaskResponse" /\ script = "grsai-provider" ->
         [code |-> NoNumber, dataId |-> Undefined]
    [] fn = "parseTaskResponse" /\ script # "grsai-provider" ->
         [data0url |-> FALSE, id |-> Undefined, status |-> Undefined]
    [] fn = "parseVideoUrl" /\ script = "geeknow-provider" ->
         [code |-> Undefined, status |-> Undefined, video_url |-> Undefined,
          progress |-> NoNumber]
    [] fn = "parseVideoUrl" /\ script = "zhichuang-provider" ->
         [status |-> Undefined, url |-> Undefined, progress |-> NoNumber]
    [] fn = "parseVideoUrl" /\ script = "grsai-provider" ->
         [code |-> NoNumber, status |-> Undefined, url |-> Undefined]

\* C24: a parse function given a response without any of the fields it reads
\* does not throw, and parseVideoUrl then answers processing and reports no
\* progress, so that the caller has no progress to write.
UnknownPayloadsKeepWaiting ==
  (parsed.fn # Undefined /\ parsed.response = EmptyResponse(parsed.script, parsed.fn)) =>
    /\ parsed.result.status # "threw"
    /\ parsed.fn = "parseVideoUrl" =>
         (parsed.result.status = "processing" /\ parsed.result.progress = NoNumber)

\* C22: when the polls of a session reported processing and the next status
\* response carries a completion status and the url X, the job is COMPLETED
\* after that poll with resultUrl X and progress 100.
CompletionResult ==
  [][\A d \in DriverIds:
       (/\ drivers[d].pc = "poll" /\ drivers[d].lastPoll = "waiting"
        /\ drivers'[d].attempts = drivers[d].attempts + 1
        /\ drivers'[d].lastPoll = "result")
       => \A k \in 1..Len(jobs'):
            jobs'[k].id = drivers[d].job =>
              /\ jobs'[k].status = COMPLETED
              /\ jobs'[k].resultUrl = "X"
              /\ jobs'[k].progress = 100]_vars

\* C23: the progress of every job is between 0 and 100, whatever number the
\* provider reported.
ProgressRange == \A i \in 1..Len(jobs): jobs[i].progress \in 0..100

\* C25: a step of the call of processJob for job A (its start, a progress
\* callback, its terminal write) leaves the number and the order of the jobs
\* and every job whose id is not A's as they were.
NoCrossJobWrites ==
  [][\A d \in 1..Len(drivers'):
       (d \notin DriverIds \/ drivers'[d] # drivers[d]) =>
         /\ Len(jobs') = Len(jobs)
         /\ \A k \in 1..Len(jobs):
              /\ jobs'[k].id = jobs[k].id
              /\ jobs[k].id # drivers'[d].job => jobs'[k] = jobs[k]]_vars

\* a progress callback has written job 2 while job 1 waits untouched
NoCrossJobWritesWitness ==
  /\ Len(jobs) = 2
  /\ jobs[1].status = PROCESSING /\ jobs[1].progress = 50
  /\ jobs[2] = NewJob(jobs[2].id)
  /\ \E d \in DriverIds: drivers[d].job = jobs[1].id /\ drivers[d].pc = "poll"

SubmitSent(d) ==
  /\ drivers[d].kind \in PollingKinds
  /\ ~(drivers[d].kind = "grsai" /\ settings.mediaType = "video"
       /\ settings.videoModel = "custom-video-model")

\* C27: for every job at most one submit request has been sent.
SubmitNeverRetried ==
  \A i \in 1..Len(jobs):
    Cardinality({d \in DriversOf(jobs[i].id) : SubmitSent(d)}) <= 1

RunningDriversOf(id) == {d \in DriversOf(id) : drivers[d].pc # "done"}

\* C29: every PROCESSING job has exactly one call of processJob running
\* for it.
ProcessingHasLiveDriver ==
  \A i \in 1..Len(jobs):
    jobs[i].status = PROCESSING => Cardinality(RunningDriversOf(jobs[i].id)) = 1

\* C30: at most one caller is running this.ffmpeg.load, and a caller that
\* load() returned to normally finds the service loaded.
LoadGuard ==
  /\ Cardinality({c \in ConversionIds : conversions[c].pc = "load"}) <= 1
  /\ \A c \in ConversionIds: conversions[c].pc = "read" => ffmpeg.loaded
====
